---- MODULE Spec2Model ----
(***************************************************************************)
(* The mutation protocol of the Discuss forum: the five server actions     *)
(* createTopics, createPost, editPost, deletePost and createComment, each  *)
(* as the sequence of steps between its awaits, over the stored topics,    *)
(* posts and comments; and the rendering of a post's comments as a tree by *)
(* the components CommentList and CommentShow.                             *)
(***************************************************************************)
EXTENDS Integers, Sequences, FiniteSets, TLC

VARIABLES topics, posts, comments, nextPostId, nextCommentId, seeded, live, inv,
          render

vars == <<topics, posts, comments, nextPostId, nextCommentId, seeded, live, inv,
         render>>

store == <<topics, posts, comments, nextPostId, nextCommentId>>

(***************************************************************************)
(* Bounds of the model.                                                    *)
(***************************************************************************)
\* The records (topics, posts, comments) created over a run.
MaxRecords == 4

\* The comments in the store when a tree is rendered.
MaxShown == 3

(***************************************************************************)
(* Optional values (null / undefined in the source) are sets of at most    *)
(* one element.                                                            *)
(***************************************************************************)
None == {}

Some(x) == {x}

The(o) == CHOOSE x \in o : TRUE

(***************************************************************************)
(* Input values.  A topic name is a sequence of characters, so that the    *)
(* schema's regular expression is evaluated character by character; the    *)
(* other texts are strings, of which only the length matters.              *)
(***************************************************************************)
Users == {"u1", "u2"}

Procs == {1, 2}

LowerOrHyphen ==
    {"a", "b", "c", "d", "e", "f", "g", "h", "i", "j", "k", "l", "m", "n",
     "o", "p", "q", "r", "s", "t", "u", "v", "w", "x", "y", "z", "-"}

\* The slugs a caller can name in a URL.
SlugArgs == {<<"a", "-", "b">>, <<"a", "b", "c">>}

NoForm == [name |-> None, description |-> None, title |-> None, content |-> None]

TopicForms ==
    { [NoForm EXCEPT !.name = f[1], !.description = f[2]] :
        f \in { <<None, None>>,
                <<Some(<<"A", "B">>), Some("short")>>,
                <<Some(<<"a", "b">>), Some("a topic description")>>,
                <<Some(<<"A", "-", "b">>), Some("a topic description")>>,
                <<Some(<<"a", "-", "b">>), Some("short")>>,
                <<Some(<<"a", "-", "b">>), Some("a topic description")>> } }

PostForms ==
    { [NoForm EXCEPT !.title = f[1], !.content = f[2]] :
        f \in { <<None, None>>,
                <<Some("ab"), Some("0123456789")>>,
                <<Some("abc"), Some("short")>>,
                <<Some("abc"), Some("0123456789")>>,
                <<Some("abcd"), Some("abcdefghijk")>> } }

CommentForms ==
    { [NoForm EXCEPT !.content = c] : c \in {None, Some("hi"), Some("hey")} }

\* What getServerSession can resolve to: no session, a session without a
\* user, a user without an id, a user with an empty id, a user with an id.
NoSession == [session |-> FALSE, user |-> FALSE, id |-> None]

Sessions ==
    { NoSession,
      [session |-> TRUE, user |-> FALSE, id |-> None],
      [session |-> TRUE, user |-> TRUE, id |-> None],
      [session |-> TRUE, user |-> TRUE, id |-> Some("")] }
    \cup { [session |-> TRUE, user |-> TRUE, id |-> Some(u)] : u \in Users }

\* What a persistence-store call can do besides working: throw an Error
\* object, or throw a value that is not an Error.
Faults == {"ok", "error", "nonerror"}

(***************************************************************************)
(* Schema validation (zod).                                                *)
(***************************************************************************)
TooSmall(min) ==
    IF min = 3 THEN "String must contain at least 3 character(s)"
    ELSE "String must contain at least 10 character(s)"

\* The length rule with a minimum that is one too small.
StringIssuesShortByOne(v, min) ==
    IF v = None THEN <<"Expected string, received null">>
    ELSE IF Len(The(v)) < min - 1 THEN <<TooSmall(min)>>
    ELSE <<>>

\* z.string().min(min)
StringIssues(v, min) ==
    IF v = None THEN <<"Expected string, received null">>
    ELSE IF Len(The(v)) < min THEN <<TooSmall(min)>>
    ELSE <<>>

\* /^[a-z-]+$/
MatchesSlugRegex(s) ==
    /\ Len(s) >= 1
    /\ \A i \in 1..Len(s) : s[i] \in LowerOrHyphen

\* The rule of the name without its regular expression.
NameIssuesWithoutRegex(v) == StringIssues(v, 3)

\* z.string().min(3).regex(/^[a-z-]+$/, {message})
NameIssues(v) ==
    IF v = None THEN <<"Expected string, received null">>
    ELSE (IF Len(The(v)) < 3 THEN <<TooSmall(3)>> ELSE <<>>)
         \o (IF MatchesSlugRegex(The(v)) THEN <<>>
             ELSE <<"Must be lowercase letter without spaces">>)

\* The error map of a validation that stops at the first field with issues.
FirstFieldError(issues) ==
    LET failing == {g \in DOMAIN issues : issues[g] # <<>>}
    IN [f \in (IF failing = {} THEN {} ELSE {CHOOSE g \in failing : TRUE}) |->
           issues[f]]

\* error.flatten().fieldErrors: the fields that have issues, each with its
\* messages.
FieldErrors(issues) ==
    [f \in {g \in DOMAIN issues : issues[g] # <<>>} |-> issues[f]]

createTopicSchema(form) ==
    FieldErrors([name |-> NameIssues(form.name),
                 description |-> StringIssues(form.description, 10)])

createPostSchema(form) ==
    FieldErrors([title |-> StringIssues(form.title, 3),
                 content |-> StringIssues(form.content, 10)])

editPostSchema(form) ==
    FieldErrors([title |-> StringIssues(form.title, 3),
                 content |-> StringIssues(form.content, 10)])

createCommentSchema(form) ==
    FieldErrors([content |-> StringIssues(form.content, 3)])

NoErrors == FieldErrors([formError |-> <<>>])

FormError(msg) == [formError |-> <<msg>>]

(***************************************************************************)
(* The session check `!session || !session.user || !session.user.id`.      *)
(***************************************************************************)
\* The session test that takes the empty id for an id.
AuthenticatedWithAnyId(s) ==
    /\ s.session
    /\ s.user
    /\ s.id # None

Authenticated(s) ==
    /\ s.session
    /\ s.user
    /\ s.id # None
    /\ The(s.id) # ""

(***************************************************************************)
(* Logical paths handed to revalidatePath and redirect.                    *)
(***************************************************************************)
HomePath == <<>>

TopicPath(slug) == <<"topic", slug>>

PostPath(slug, postId) == <<"topic", slug, "posts", postId>>

(***************************************************************************)
(* The persistence store's failures.  A call throws when a fault is        *)
(* injected or when a constraint of the schema is violated.                *)
(***************************************************************************)
Thrown(fault, violated, message) ==
    IF fault = "error" THEN Some([isError |-> TRUE, message |-> "db error"])
    ELSE IF fault = "nonerror" THEN Some([isError |-> FALSE, message |-> ""])
    ELSE IF violated THEN Some([isError |-> TRUE, message |-> message])
    ELSE None

\* The catch block that always answers with the fallback message.
CatchMessageAlwaysFallback(e, fallback) == fallback

\* catch (error) { if (error instanceof Error) error.message else fallback }
CatchMessage(e, fallback) == IF e.isError THEN e.message ELSE fallback

(***************************************************************************)
(* One invocation of a server action.                                      *)
(***************************************************************************)
Idle ==
    [pc |-> "idle", op |-> "none", slug |-> None, postId |-> None,
     parentId |-> None, form |-> NoForm, session |-> NoSession, found |-> None,
     outcome |-> "none", errors |-> NoErrors, caught |-> None, thrown |-> None,
     calls |-> <<>>,
     pre |-> [topics |-> {}, posts |-> {}, comments |-> {}]]

Call(fn, arg, ok) == [fn |-> fn, arg |-> arg, ok |-> ok]

Snapshot == [topics |-> topics, posts |-> posts, comments |-> comments]

\* A request is accepted by a live worker that is not running one.
CanBegin(p) ==
    /\ p \in live
    /\ inv[p].pc = "idle"

\* The records created so far, those the store began with not counted; ids are
\* never used twice.
Created ==
    Cardinality(topics) + (nextPostId - 1) + (nextCommentId - 1) - seeded

\* The ids a caller can name: those handed out so far, and one that was not.
PostIdArgs == 1..nextPostId

CommentIdArgs == 1..nextCommentId

\* The caller receives the outcome and the worker is free again.
Respond(p) ==
    /\ inv[p].pc = "done"
    /\ inv' = [inv EXCEPT ![p] = Idle]
    /\ UNCHANGED <<store, seeded, live, render>>

\* return { errors }
Return(i, errors) ==
    [i EXCEPT !.pc = "done", !.outcome = "returned", !.errors = errors]

\* An exception leaves the action: thrown by the action itself or by a
\* store call outside any try block.
Throw(i, e) ==
    [i EXCEPT !.pc = "done", !.outcome = "thrown", !.thrown = Some(e)]

Log(i, call) == [i EXCEPT !.calls = Append(@, call)]

\* redirect(target) placed before revalidatePath(path), which is then never
\* reached.
RedirectWithoutRevalidate(i, path, target) ==
    [i EXCEPT !.pc = "done", !.outcome = "redirected",
              !.calls = @ \o <<Call("redirect", target, TRUE)>>]

\* revalidatePath(path); redirect(target), which ends the action.
RevalidateAndRedirect(i, path, target) ==
    [i EXCEPT !.pc = "done", !.outcome = "redirected",
              !.calls = @ \o <<Call("revalidatePath", path, TRUE),
                               Call("redirect", target, TRUE)>>]

\* const session = await getServerSession(authOptions), and the check of it.
ResolveSession(i, loginMessage, nextPc) ==
    LET j == Log(i, Call("getServerSession", <<>>, TRUE)) IN
    IF ~Authenticated(i.session) THEN Return(j, FormError(loginMessage))
    ELSE [j EXCEPT !.pc = nextPc]

\* session.user.id
UserId(i) == The(i.session.id)

\* catch (error) { return { errors: { formError: [...] } } }
Catch(i, e, fallback) ==
    Return([i EXCEPT !.caught = Some(e)], FormError(CatchMessage(e, fallback)))

(***************************************************************************)
(* createTopics                                                            *)
(***************************************************************************)
CreateTopicsBegin(p) ==
    /\ CanBegin(p)
    /\ Created < MaxRecords
    /\ \E form \in TopicForms, s \in Sessions :
         LET i == [Idle EXCEPT !.op = "createTopics", !.form = form,
                               !.session = s,
                               !.pre = Snapshot]
             errors == createTopicSchema(form)
         IN inv' = [inv EXCEPT ![p] =
                      IF errors # NoErrors THEN Return(i, errors)
                      ELSE [i EXCEPT !.pc = "auth"]]
    /\ UNCHANGED <<store, seeded, live, render>>

CreateTopicsAuth(p) ==
    /\ inv[p].op = "createTopics"
    /\ inv[p].pc = "auth"
    /\ inv' = [inv EXCEPT ![p] =
                   ResolveSession(@, "You have to login first!", "write")]
    /\ UNCHANGED <<store, seeded, live, render>>

\* A store that takes a second topic of a slug.
SlugNotUnique(slug) == FALSE

\* The Topic model's slug is unique.
TopicCreateViolation(slug) == \E t \in topics : t.slug = slug

NewTopic(slug, description) ==
    [id |-> Cardinality(topics) + 1, slug |-> slug, description |-> description]

CreateTopicsWrite(p) ==
    /\ inv[p].op = "createTopics"
    /\ inv[p].pc = "write"
    /\ \E fault \in Faults :
         LET i == inv[p]
             slug == The(i.form.name)
             e == Thrown(fault, TopicCreateViolation(slug),
                         "Unique constraint failed")
             topic == NewTopic(slug, The(i.form.description))
         IN IF e # None
            THEN /\ inv' = [inv EXCEPT ![p] =
                     Catch(Log(i, Call("topic.create", <<>>, FALSE)), The(e),
                           "Something went wrong.")]
                 /\ UNCHANGED topics
            ELSE /\ topics' = topics \cup {topic}
                 /\ inv' = [inv EXCEPT ![p] =
                      RevalidateAndRedirect(
                          Log(i, Call("topic.create", <<>>, TRUE)),
                          HomePath, TopicPath(topic.slug))]
    /\ UNCHANGED <<posts, comments, nextPostId, nextCommentId, seeded, live, render>>

(***************************************************************************)
(* createPost                                                              *)
(***************************************************************************)
CreatePostBegin(p) ==
    /\ CanBegin(p)
    /\ Created < MaxRecords
    /\ \E slug \in SlugArgs, form \in PostForms, s \in Sessions :
         LET i == [Idle EXCEPT !.op = "createPost", !.slug = Some(slug),
                               !.form = form, !.session = s, !.pre = Snapshot]
             errors == createPostSchema(form)
         IN inv' = [inv EXCEPT ![p] =
                      IF errors # NoErrors THEN Return(i, errors)
                      ELSE [i EXCEPT !.pc = "auth"]]
    /\ UNCHANGED <<store, seeded, live, render>>

CreatePostAuth(p) ==
    /\ inv[p].op = "createPost"
    /\ inv[p].pc = "auth"
    /\ inv' = [inv EXCEPT ![p] =
                   ResolveSession(@, "You have to login first", "lookup")]
    /\ UNCHANGED <<store, seeded, live, render>>

\* The lookup without its where clause.
TopicOfAnySlug(slug) == topics

\* prisma.topic.findFirst({ where: { slug } })
TopicBySlug(slug) == {t \in topics : t.slug = slug}

CreatePostLookup(p) ==
    /\ inv[p].op = "createPost"
    /\ inv[p].pc = "lookup"
    /\ \E fault \in Faults :
         LET i == Log(inv[p], Call("topic.findFirst", <<>>, fault = "ok"))
             e == Thrown(fault, FALSE, "")
             topic == TopicBySlug(The(i.slug))
         IN inv' = [inv EXCEPT ![p] =
                      IF e # None THEN Throw(i, The(e))
                      ELSE IF topic = None THEN Return(i, FormError("Topic not found"))
                      ELSE [i EXCEPT !.pc = "write", !.found = topic]]
    /\ UNCHANGED <<store, seeded, live, render>>

\* A post references its topic.
PostCreateViolation(topicId) == ~\E t \in topics : t.id = topicId

NewPost(title, content, userId, topicId) ==
    [id |-> nextPostId, title |-> title, content |-> content,
     userId |-> userId, topicId |-> topicId]

CreatePostWrite(p) ==
    /\ inv[p].op = "createPost"
    /\ inv[p].pc = "write"
    /\ \E fault \in Faults :
         LET i == inv[p]
             topic == The(i.found)
             e == Thrown(fault, PostCreateViolation(topic.id),
                         "Foreign key constraint failed")
             post == NewPost(The(i.form.title), The(i.form.content),
                             UserId(i), topic.id)
         IN IF e # None
            THEN /\ inv' = [inv EXCEPT ![p] =
                     Catch(Log(i, Call("post.create", <<>>, FALSE)), The(e),
                           "Failed to create a post.")]
                 /\ UNCHANGED <<posts, nextPostId>>
            ELSE /\ posts' = posts \cup {post}
                 /\ nextPostId' = nextPostId + 1
                 /\ inv' = [inv EXCEPT ![p] =
                      RevalidateAndRedirect(
                          Log(i, Call("post.create", <<>>, TRUE)),
                          TopicPath(The(i.slug)),
                          PostPath(The(i.slug), post.id))]
    /\ UNCHANGED <<topics, comments, nextCommentId, seeded, live, render>>

(***************************************************************************)
(* editPost                                                                *)
(***************************************************************************)
EditPostBegin(p) ==
    /\ CanBegin(p)
    /\ \E postId \in PostIdArgs, slug \in SlugArgs, form \in PostForms,
          s \in Sessions :
         LET i == [Idle EXCEPT !.op = "editPost", !.postId = Some(postId),
                               !.slug = Some(slug), !.form = form,
                               !.session = s, !.pre = Snapshot]
             errors == editPostSchema(form)
         IN inv' = [inv EXCEPT ![p] =
                      IF errors # NoErrors THEN Return(i, errors)
                      ELSE [i EXCEPT !.pc = "auth"]]
    /\ UNCHANGED <<store, seeded, live, render>>

EditPostAuth(p) ==
    /\ inv[p].op = "editPost"
    /\ inv[p].pc = "auth"
    /\ inv' = [inv EXCEPT ![p] =
                   ResolveSession(@, "You must be logged in to edit posts",
                                  "lookup")]
    /\ UNCHANGED <<store, seeded, live, render>>

\* The lookup without its where clause.
PostOfAnyId(postId) == posts

\* prisma.post.findUnique({ where: { id: postId } })
PostById(postId) == {q \in posts : q.id = postId}

\* The ownership test of editPost with the comparison of the author left out.
EditPostAuthorizedAnyUser(post, userId) == TRUE

\* post.userId !== session.user.id is the denial.
EditPostAuthorized(post, userId) == post.userId = userId

EditPostLookup(p) ==
    /\ inv[p].op = "editPost"
    /\ inv[p].pc = "lookup"
    /\ \E fault \in Faults :
         LET i == Log(inv[p], Call("post.findUnique", <<>>, fault = "ok"))
             e == Thrown(fault, FALSE, "")
             post == PostById(The(i.postId))
         IN inv' = [inv EXCEPT ![p] =
                      IF e # None THEN Throw(i, The(e))
                      ELSE IF post = None THEN Return(i, FormError("Post not found"))
                      ELSE IF ~EditPostAuthorized(The(post), UserId(i))
                        THEN Return(i, FormError("You can only edit your own posts"))
                      ELSE [i EXCEPT !.pc = "write", !.found = post]]
    /\ UNCHANGED <<store, seeded, live, render>>

\* A store in which an update or a delete of no record is no failure.
PostNeverMissing(postId) == FALSE

\* An update or a delete of a record that does not exist fails.
PostMissing(postId) == PostById(postId) = None

\* The update that writes the title and leaves the content.
UpdatedTitles(postId, title, content) ==
    { IF q.id = postId THEN [q EXCEPT !.title = title] ELSE q : q \in posts }

\* prisma.post.update({ where: { id: postId }, data: { title, content } })
UpdatedPosts(postId, title, content) ==
    { IF q.id = postId THEN [q EXCEPT !.title = title, !.content = content]
      ELSE q : q \in posts }

EditPostWrite(p) ==
    /\ inv[p].op = "editPost"
    /\ inv[p].pc = "write"
    /\ \E fault \in Faults :
         LET i == inv[p]
             postId == The(i.postId)
             e == Thrown(fault, PostMissing(postId), "Record to update not found.")
         IN IF e # None
            THEN /\ inv' = [inv EXCEPT ![p] =
                     Catch(Log(i, Call("post.update", <<>>, FALSE)), The(e),
                           "Failed to update post.")]
                 /\ UNCHANGED posts
            ELSE /\ posts' = UpdatedPosts(postId, The(i.form.title),
                                          The(i.form.content))
                 /\ inv' = [inv EXCEPT ![p] =
                      RevalidateAndRedirect(
                          Log(i, Call("post.update", <<>>, TRUE)),
                          PostPath(The(i.slug), postId),
                          PostPath(The(i.slug), postId))]
    /\ UNCHANGED <<topics, comments, nextPostId, nextCommentId, seeded, live, render>>

(***************************************************************************)
(* deletePost                                                              *)
(***************************************************************************)
\* throw new Error(message)
Raise(i, message) == Throw(i, [isError |-> TRUE, message |-> message])

DeletePostBegin(p) ==
    /\ CanBegin(p)
    /\ \E postId \in PostIdArgs, slug \in SlugArgs, s \in Sessions :
         inv' = [inv EXCEPT ![p] =
                   [Idle EXCEPT !.op = "deletePost", !.postId = Some(postId),
                                !.slug = Some(slug), !.session = s,
                                !.pre = Snapshot,
                                !.pc = "auth"]]
    /\ UNCHANGED <<store, seeded, live, render>>

DeletePostAuth(p) ==
    /\ inv[p].op = "deletePost"
    /\ inv[p].pc = "auth"
    /\ LET i == Log(inv[p], Call("getServerSession", <<>>, TRUE)) IN
       inv' = [inv EXCEPT ![p] =
                 IF ~Authenticated(i.session)
                 THEN Raise(i, "You must be logged in to delete posts")
                 ELSE [i EXCEPT !.pc = "lookup"]]
    /\ UNCHANGED <<store, seeded, live, render>>

\* The ownership test of deletePost with the comparison of the author left out.
DeletePostAuthorizedAnyUser(post, userId) == TRUE

\* post.userId !== session.user.id is the denial.
DeletePostAuthorized(post, userId) == post.userId = userId

DeletePostLookup(p) ==
    /\ inv[p].op = "deletePost"
    /\ inv[p].pc = "lookup"
    /\ \E fault \in Faults :
         LET i == Log(inv[p], Call("post.findUnique", <<>>, fault = "ok"))
             e == Thrown(fault, FALSE, "")
             post == PostById(The(i.postId))
         IN inv' = [inv EXCEPT ![p] =
                      IF e # None THEN Throw(i, The(e))
                      ELSE IF post = None THEN Raise(i, "Post not found")
                      ELSE IF ~DeletePostAuthorized(The(post), UserId(i))
                        THEN Raise(i, "You can only delete your own posts")
                      ELSE [i EXCEPT !.pc = "write", !.found = post]]
    /\ UNCHANGED <<store, seeded, live, render>>

\* A schema without the cascade.
NothingCascades(deleted) == {}

\* The schema's cascade: the comments of the posts that are deleted.
CascadedComments(deleted) ==
    {c \in comments : \E q \in deleted : q.id = c.postId}

DeletePostWrite(p) ==
    /\ inv[p].op = "deletePost"
    /\ inv[p].pc = "write"
    /\ \E fault \in Faults :
         LET i == inv[p]
             postId == The(i.postId)
             e == Thrown(fault, PostMissing(postId),
                         "Record to delete does not exist.")
         IN IF e # None
            THEN /\ inv' = [inv EXCEPT ![p] =
                     Raise([Log(i, Call("post.delete", <<>>, FALSE))
                              EXCEPT !.caught = e],
                           IF The(e).isError
                           THEN "Failed to delete post: " \o The(e).message
                           ELSE "Failed to delete post")]
                 /\ UNCHANGED <<posts, comments>>
            ELSE /\ posts' = posts \ PostById(postId)
                 /\ comments' = comments \ CascadedComments(PostById(postId))
                 /\ inv' = [inv EXCEPT ![p] =
                      RevalidateAndRedirect(
                          Log(i, Call("post.delete", <<>>, TRUE)),
                          TopicPath(The(i.slug)), TopicPath(The(i.slug)))]
    /\ UNCHANGED <<topics, nextPostId, nextCommentId, seeded, live, render>>

(***************************************************************************)
(* createComment                                                           *)
(***************************************************************************)
CreateCommentBegin(p) ==
    /\ CanBegin(p)
    /\ Created < MaxRecords
    /\ \E postId \in PostIdArgs,
          parentId \in {None} \cup {Some(c) : c \in CommentIdArgs},
          form \in CommentForms, s \in Sessions :
         LET i == [Idle EXCEPT !.op = "createComment", !.postId = Some(postId),
                               !.parentId = parentId, !.form = form,
                               !.session = s, !.pre = Snapshot]
             errors == createCommentSchema(form)
         IN inv' = [inv EXCEPT ![p] =
                      IF errors # NoErrors THEN Return(i, errors)
                      ELSE [i EXCEPT !.pc = "auth"]]
    /\ UNCHANGED <<store, seeded, live, render>>

CreateCommentAuth(p) ==
    /\ inv[p].op = "createComment"
    /\ inv[p].pc = "auth"
    /\ inv' = [inv EXCEPT ![p] =
                   ResolveSession(@, "You have to login first to reply comment",
                                  "write")]
    /\ UNCHANGED <<store, seeded, live, render>>

\* The references of a comment with that to its parent left unchecked.
CommentOfAnyParent(postId, parentId) == PostMissing(postId)

\* A comment references its post and, when it has one, its parent comment.
CommentCreateViolation(postId, parentId) ==
    \/ PostMissing(postId)
    \/ /\ parentId # None
       /\ ~\E c \in comments : c.id = The(parentId)

\* The insert with the parentId left out.
NewCommentWithoutParent(content, postId, userId, parentId) ==
    [id |-> nextCommentId, content |-> content, postId |-> postId,
     userId |-> userId, parentId |-> None]

\* The insert with the author of the post in the place of the caller.
NewCommentByPostAuthor(content, postId, userId, parentId) ==
    [id |-> nextCommentId, content |-> content, postId |-> postId,
     userId |-> The(PostById(postId)).userId, parentId |-> parentId]

NewComment(content, postId, userId, parentId) ==
    [id |-> nextCommentId, content |-> content, postId |-> postId,
     userId |-> userId, parentId |-> parentId]

CreateCommentWrite(p) ==
    /\ inv[p].op = "createComment"
    /\ inv[p].pc = "write"
    /\ \E fault \in Faults :
         LET i == inv[p]
             e == Thrown(fault, CommentCreateViolation(The(i.postId), i.parentId),
                         "Foreign key constraint failed")
             comment == NewComment(The(i.form.content), The(i.postId),
                                   UserId(i), i.parentId)
         IN IF e # None
            THEN /\ inv' = [inv EXCEPT ![p] =
                     Catch(Log(i, Call("comment.create", <<>>, FALSE)), The(e),
                           "Failed to reply comment")]
                 /\ UNCHANGED <<comments, nextCommentId>>
            ELSE /\ comments' = comments \cup {comment}
                 /\ nextCommentId' = nextCommentId + 1
                 /\ inv' = [inv EXCEPT ![p] =
                      [Log(i, Call("comment.create", <<>>, TRUE))
                         EXCEPT !.pc = "relookup"]]
    /\ UNCHANGED <<topics, posts, nextPostId, seeded, live, render>>

\* prisma.topic.findFirst({ where: { posts: { some: { id: postId } } } })
TopicOfPost(postId) ==
    {t \in topics : \E q \in posts : q.id = postId /\ q.topicId = t.id}

CreateCommentRevalidate(p) ==
    /\ inv[p].op = "createComment"
    /\ inv[p].pc = "relookup"
    /\ \E fault \in Faults :
         LET i == Log(inv[p], Call("topic.findFirst", <<>>, fault = "ok"))
             e == Thrown(fault, FALSE, "")
             topic == TopicOfPost(The(i.postId))
         IN inv' = [inv EXCEPT ![p] =
                      IF e # None THEN Throw(i, The(e))
                      ELSE IF topic = None
                        THEN Return(i, FormError("Failed to revalidate path"))
                      ELSE Return(
                             Log(i, Call("revalidatePath",
                                         PostPath(The(topic).slug, The(i.postId)),
                                         TRUE)),
                             NoErrors)]
    /\ UNCHANGED <<store, seeded, live, render>>

(***************************************************************************)
(* The comment tree.  CommentList fetches the comments of a post and       *)
(* mounts a CommentShow for each top-level one; CommentShow fetches them   *)
(* again, finds its comment and mounts a CommentShow for each reply.  The  *)
(* rendering is followed in document order, the components that are open   *)
(* forming a stack.                                                        *)
(***************************************************************************)
NotRendering ==
    [pc |-> "idle", count |-> None, listed |-> <<>>, top |-> <<>>,
     mounted |-> <<>>, stack |-> <<>>, out |-> <<>>, shows |-> <<>>]

\* orderBy: { createdAt: "desc" }: ids are handed out in the order of creation,
\* so the comment in place k is the one with k - 1 newer ones.
NewestFirst(cs) ==
    [k \in 1..Cardinality(cs) |->
        CHOOSE c \in cs : Cardinality({d \in cs : d.id > c.id}) = k - 1]

\* array.filter(keep): the items of the places kept, in their order.
Filter(s, kept) ==
    [k \in 1..Cardinality(kept) |->
        s[CHOOSE j \in kept : Cardinality({m \in kept : m < j}) = k - 1]]

\* The query without its where clause.
CommentsOfAnyPost(postId) == comments

\* where: { postId }
CommentsOfPost(postId) == {c \in comments : c.postId = postId}

\* prisma.comment.findMany({ where: { postId }, orderBy: { createdAt: "desc" } })
fetchCommentByPostId(postId) == NewestFirst(CommentsOfPost(postId))

\* The comparison with undefined, which a stored null never equals.
NeverTopLevel(comment) == FALSE

\* comment.parentId === null
IsTopLevel(comment) == comment.parentId = None

\* The list without its filter.
AllAsTopLevel(cs) == cs

\* comments.filter((comment) => comment.parentId === null)
topLevelComments(cs) == Filter(cs, {k \in DOMAIN cs : IsTopLevel(cs[k])})

\* comments.find((c) => c.id === commentId)
FindComment(cs, commentId) ==
    LET hits == {k \in DOMAIN cs : cs[k].id = commentId}
    IN IF hits = {} THEN None
       ELSE Some(cs[CHOOSE k \in hits : \A j \in hits : k <= j])

\* The replies put in the order of their creation.
RepliesOldestFirst(cs, commentId) ==
    LET all == Filter(cs, {k \in DOMAIN cs : cs[k].parentId = Some(commentId)})
    IN [k \in DOMAIN all |-> all[Len(all) + 1 - k]]

\* find in the place of filter: the first reply only.
FirstChildOnly(cs, commentId) ==
    LET all == Filter(cs, {k \in DOMAIN cs : cs[k].parentId = Some(commentId)})
    IN IF all = <<>> THEN <<>> ELSE <<all[1]>>

\* comments.filter((c) => c.parentId === commentId)
children(cs, commentId) ==
    Filter(cs, {k \in DOMAIN cs : cs[k].parentId = Some(commentId)})

\* depth passed on as it is.
SameDepth(depth) == depth

\* depth={depth + 1}
ChildDepth(depth) == depth + 1

\* <CommentShow postId=... commentId=... depth=... />, one for each comment.
Mounts(postId, ids, depth) ==
    [k \in DOMAIN ids |-> [postId |-> postId, commentId |-> ids[k], depth |-> depth]]

\* topLevelComments.map((comment) => <CommentShow postId={comment.postId}
\* commentId={comment.id} />): depth takes its default, 0.
MountsOfList(cs) ==
    [k \in DOMAIN cs |-> [postId |-> cs[k].postId, commentId |-> cs[k].id, depth |-> 0]]

Component(kind, todo) == [kind |-> kind, todo |-> todo]

\* The CommentShow components that are open, one inside the other.
Nesting(stack) == Cardinality({k \in DOMAIN stack : stack[k].kind = "CommentShow"})

\* The fetch rejects: the rendering ends in the error boundary.
RenderFails == [render EXCEPT !.pc = "failed"]

CommentList(postId) ==
    /\ render.pc = "idle"
    /\ \E fault \in Faults :
         LET e == Thrown(fault, FALSE, "")
             cs == fetchCommentByPostId(postId)
             top == topLevelComments(cs)
         IN render' =
              IF e # None THEN RenderFails
              ELSE [render EXCEPT
                      !.pc = "rendering",
                      !.count = Some(Len(cs)),
                      !.listed = cs,
                      !.top = top,
                      !.mounted = MountsOfList(top),
                      !.stack = <<Component("CommentList", MountsOfList(top))>>]
    /\ UNCHANGED <<store, seeded, live, inv>>

\* A page that mounts CommentShow itself, with the ids it is given.
CommentShowMount(postId, ids) ==
    /\ render.pc = "idle"
    /\ render' = [render EXCEPT
                    !.pc = "rendering",
                    !.mounted = Mounts(postId, ids, 0),
                    !.stack = <<Component("page", Mounts(postId, ids, 0))>>]
    /\ UNCHANGED <<store, seeded, live, inv>>

\* The next CommentShow of the innermost open component runs.
CommentShow ==
    /\ render.pc = "rendering"
    /\ render.stack # <<>>
    /\ render.stack[Len(render.stack)].todo # <<>>
    /\ \E fault \in Faults :
         LET e == Thrown(fault, FALSE, "")
             props == Head(render.stack[Len(render.stack)].todo)
             cs == fetchCommentByPostId(props.postId)
             comment == FindComment(cs, props.commentId)
             replies == children(cs, props.commentId)
             rest == [render.stack EXCEPT ![Len(render.stack)].todo = Tail(@)]
             opened ==
                 Append(rest,
                        Component("CommentShow",
                                  Mounts(props.postId,
                                         [k \in DOMAIN replies |-> replies[k].id],
                                         ChildDepth(props.depth))))
         IN render' =
              IF e # None THEN RenderFails
              ELSE IF comment = None
                THEN [render EXCEPT
                        !.stack = rest,
                        !.shows = Append(@, [props |-> props, fetched |-> cs,
                                             found |-> FALSE, children |-> <<>>])]
              ELSE [render EXCEPT
                      !.stack = opened,
                      !.out = Append(@, [comment |-> The(comment),
                                         depth |-> props.depth,
                                         level |-> Nesting(opened)]),
                      !.shows = Append(@, [props |-> props, fetched |-> cs,
                                           found |-> TRUE, children |-> replies])]
    /\ UNCHANGED <<store, seeded, live, inv>>

\* The innermost open component has mounted all its CommentShow: it closes.
CommentShowReturn ==
    /\ render.pc = "rendering"
    /\ render.stack # <<>>
    /\ render.stack[Len(render.stack)].todo = <<>>
    /\ LET closed == SubSeq(render.stack, 1, Len(render.stack) - 1)
       IN render' = [render EXCEPT
                       !.stack = closed,
                       !.pc = IF closed = <<>> THEN "done" ELSE "rendering"]
    /\ UNCHANGED <<store, seeded, live, inv>>

(***************************************************************************)
(* The specification of the mutation protocol.                             *)
(***************************************************************************)
Init ==
    /\ topics = {}
    /\ posts = {}
    /\ comments = {}
    /\ nextPostId = 1
    /\ nextCommentId = 1
    /\ seeded = 0
    /\ live = {1}
    /\ inv = [p \in Procs |-> Idle]
    /\ render = NotRendering

Next ==
    \E p \in Procs :
        \/ Respond(p)
        \/ CreateTopicsBegin(p)
        \/ CreateTopicsAuth(p)
        \/ CreateTopicsWrite(p)
        \/ CreatePostBegin(p)
        \/ CreatePostAuth(p)
        \/ CreatePostLookup(p)
        \/ CreatePostWrite(p)
        \/ EditPostBegin(p)
        \/ EditPostAuth(p)
        \/ EditPostLookup(p)
        \/ EditPostWrite(p)
        \/ DeletePostBegin(p)
        \/ DeletePostAuth(p)
        \/ DeletePostLookup(p)
        \/ DeletePostWrite(p)
        \/ CreateCommentBegin(p)
        \/ CreateCommentAuth(p)
        \/ CreateCommentWrite(p)
        \/ CreateCommentRevalidate(p)

Spec == Init /\ [][Next]_vars

(***************************************************************************)
(* The specification of the rendering: over every store of at most         *)
(* MaxShown comments that createComment can leave on two posts, a tree is  *)
(* rendered once.                                                          *)
(***************************************************************************)
SeedTopics == {[id |-> 1, slug |-> <<"a", "-", "b">>,
                description |-> "a topic description"]}

SeedPosts ==
    {[id |-> k, title |-> "abc", content |-> "0123456789",
      userId |-> "u1", topicId |-> 1] : k \in 1..2}

\* The comments 1..n, each on one of the two posts and each a top-level
\* comment or a reply to an earlier comment, of either post.
SeedComments(n) ==
    LET Shape == [postId : 1..2,
                  parentId : {None} \cup {Some(k) : k \in 1..n}]
    IN { {[id |-> k, content |-> "hey", postId |-> f[k].postId,
           userId |-> "u1", parentId |-> f[k].parentId] : k \in 1..n} :
         f \in {g \in [1..n -> Shape] :
                  \A k \in 1..n :
                      g[k].parentId # None => The(g[k].parentId) < k} }

\* The ids a page can hand to CommentShow: one or two of them.
MountedIds ==
    {<<a>> : a \in CommentIdArgs}
        \cup {<<a, b>> : a \in CommentIdArgs, b \in CommentIdArgs}

InitRender ==
    /\ topics = SeedTopics
    /\ posts = SeedPosts
    /\ \E n \in 0..MaxShown :
           /\ comments \in SeedComments(n)
           /\ nextCommentId = n + 1
           /\ seeded = 3 + n
    /\ nextPostId = 3
    /\ live = {}
    /\ inv = [p \in Procs |-> Idle]
    /\ render = NotRendering

NextRender ==
    \/ \E postId \in PostIdArgs : CommentList(postId)
    \/ \E postId \in PostIdArgs, ids \in MountedIds : CommentShowMount(postId, ids)
    \/ CommentShow
    \/ CommentShowReturn

SpecRender == InitRender /\ [][NextRender]_vars

\* The rendering that CommentList starts, which React carries to its end.
NextTree ==
    \/ \E postId \in PostIdArgs : CommentList(postId)
    \/ CommentShow
    \/ CommentShowReturn

SpecTree == InitRender /\ [][NextTree]_vars /\ WF_vars(NextTree)

(***************************************************************************)
(* What the properties below speak about: an invocation that has ended,    *)
(* its input as the caller gave it, and the collaborator calls it made.    *)
(***************************************************************************)
Finished(p) == inv[p].pc = "done"

FormOps == {"createTopics", "createPost", "editPost", "createComment"}

WriteCalls ==
    {"topic.create", "post.create", "post.update", "post.delete", "comment.create"}

SignalCalls == {"revalidatePath", "redirect"}

\* The validation table: name at least 3 characters of lowercase letters and
\* hyphens, description at least 10, title at least 3, content at least 10
\* (a post) or 3 (a comment).
LongEnough(v, min) == v # None /\ Len(The(v)) >= min

ValidInput(i) ==
    CASE i.op = "createTopics" ->
           /\ LongEnough(i.form.name, 3)
           /\ \A k \in 1..Len(The(i.form.name)) : The(i.form.name)[k] \in LowerOrHyphen
           /\ LongEnough(i.form.description, 10)
      [] i.op \in {"createPost", "editPost"} ->
           LongEnough(i.form.title, 3) /\ LongEnough(i.form.content, 10)
      [] i.op = "createComment" -> LongEnough(i.form.content, 3)
      [] OTHER -> TRUE

FieldsOf(op) ==
    CASE op = "createTopics" -> {"name", "description"}
      [] op \in {"createPost", "editPost"} -> {"title", "content"}
      [] OTHER -> {"content"}

\* The caller has a session with a user that has an id.
HasUser(i) ==
    /\ i.session.session
    /\ i.session.user
    /\ i.session.id # None
    /\ The(i.session.id) # ""

Caller(i) == The(i.session.id)

Called(i, fns) == \E k \in DOMAIN i.calls : i.calls[k].fn \in fns

Worked(i, fn) == \E k \in DOMAIN i.calls : i.calls[k].fn = fn /\ i.calls[k].ok

SameStore(i) ==
    /\ topics = i.pre.topics
    /\ posts = i.pre.posts
    /\ comments = i.pre.comments

\* The post an edit or a delete names, as stored when the invocation began.
Target(i) == {q \in i.pre.posts : q.id = The(i.postId)}

ByOtherUser(i) ==
    /\ HasUser(i)
    /\ Target(i) # None
    /\ The(Target(i)).userId # Caller(i)

Denied(i, message) ==
    /\ i.outcome = "returned"
    /\ i.errors = FormError(message)

(***************************************************************************)
(* C1.  As stated: every editPost by a user other than the post's author   *)
(* returns a formError that denies permission and leaves the post's title  *)
(* and content as they were.  An editPost with invalid input returns field *)
(* errors before the author is looked at, so this fails.                   *)
(***************************************************************************)
EditByOtherUserIsDeniedForAnyInput ==
    \A p \in Procs :
        LET i == inv[p] IN
        (Finished(p) /\ i.op = "editPost" /\ ByOtherUser(i))
            => /\ Denied(i, "You can only edit your own posts")
               /\ PostById(The(i.postId)) = Target(i)

\* C1, amended: an editPost with valid input by a user other than the post's
\* author, whose lookup of the post completes, returns the formError that
\* denies permission and leaves the post's title and content as they were.
EditByOtherUserIsDenied ==
    \A p \in Procs :
        LET i == inv[p] IN
        (/\ Finished(p)
         /\ i.op = "editPost"
         /\ ValidInput(i)
         /\ ByOtherUser(i)
         /\ Worked(i, "post.findUnique"))
            => /\ Denied(i, "You can only edit your own posts")
               /\ PostById(The(i.postId)) = Target(i)

WitnessEditByOtherUser ==
    \E p \in Procs :
        /\ Finished(p)
        /\ inv[p].op = "editPost"
        /\ ValidInput(inv[p])
        /\ ByOtherUser(inv[p])
        /\ Denied(inv[p], "You can only edit your own posts")

(***************************************************************************)
(* C2.  A post leaves the store only in the write of a deletePost that its *)
(* author called, and a deletePost by a caller without a user, or by a     *)
(* user other than the author, ends in a raised error with the posts and   *)
(* the comments as they were.                                              *)
(***************************************************************************)
RemovedByAuthor ==
    \A q \in posts :
        (~\E r \in posts' : r.id = q.id)
            => \E p \in Procs :
                   /\ inv[p].op = "deletePost"
                   /\ inv[p].pc = "write"
                   /\ The(inv[p].postId) = q.id
                   /\ HasUser(inv[p])
                   /\ Caller(inv[p]) = q.userId
                   /\ inv'[p].outcome = "redirected"

RefusedDeleteKeepsAll ==
    \A p \in Procs :
        LET i == inv[p] IN
        (Finished(p) /\ i.op = "deletePost" /\ (~HasUser(i) \/ ByOtherUser(i)))
            => /\ i.outcome = "thrown"
               /\ posts = i.pre.posts
               /\ comments = i.pre.comments

\* C2: every step removes posts only as RemovedByAuthor allows and leaves
\* RefusedDeleteKeepsAll true.
PostDeletedOnlyByAuthor == [][RemovedByAuthor /\ RefusedDeleteKeepsAll']_vars

WitnessDeleteByOtherUser ==
    \E p \in Procs :
        /\ Finished(p)
        /\ inv[p].op = "deletePost"
        /\ ByOtherUser(inv[p])
        /\ inv[p].outcome = "thrown"
        /\ \E c \in comments : c.postId = The(inv[p].postId)

(***************************************************************************)
(* C3.  An invocation of createTopics, createPost, editPost or             *)
(* createComment whose input fails validation returns an error map keyed   *)
(* by the operation's field names, having called neither the session       *)
(* provider nor the store nor revalidatePath nor redirect, with the        *)
(* topics, posts and comments as they were.                                *)
(***************************************************************************)
InvalidInputHasNoEffect ==
    \A p \in Procs :
        LET i == inv[p] IN
        (Finished(p) /\ i.op \in FormOps /\ ~ValidInput(i))
            => /\ i.outcome = "returned"
               /\ DOMAIN i.errors # {}
               /\ DOMAIN i.errors \subseteq FieldsOf(i.op)
               /\ \A f \in DOMAIN i.errors : i.errors[f] # <<>>
               /\ i.calls = <<>>
               /\ SameStore(i)

WitnessInvalidInput ==
    \E p \in Procs :
        /\ Finished(p)
        /\ inv[p].op = "editPost"
        /\ HasUser(inv[p])
        /\ Target(inv[p]) # None
        /\ DOMAIN inv[p].errors = {"title"}

(***************************************************************************)
(* C4.  An invocation of createTopics, createPost, editPost or             *)
(* createComment with valid input by a caller without a session, a session *)
(* user or a user id returns an error map whose only key is formError,     *)
(* with the operation's one login message, and makes no store write and    *)
(* emits no invalidation or navigation.                                    *)
(***************************************************************************)
LoginMessage(op) ==
    CASE op = "createTopics" -> "You have to login first!"
      [] op = "createPost" -> "You have to login first"
      [] op = "editPost" -> "You must be logged in to edit posts"
      [] OTHER -> "You have to login first to reply comment"

\* C4: valid input without a user ends in the one login message and no write.
UnauthenticatedIsRejected ==
    \A p \in Procs :
        LET i == inv[p] IN
        (Finished(p) /\ i.op \in FormOps /\ ValidInput(i) /\ ~HasUser(i))
            => /\ i.outcome = "returned"
               /\ DOMAIN i.errors = {"formError"}
               /\ i.errors.formError = <<LoginMessage(i.op)>>
               /\ ~Called(i, WriteCalls \cup SignalCalls)
               /\ SameStore(i)

WitnessUnauthenticated ==
    \E p \in Procs :
        /\ Finished(p)
        /\ inv[p].op = "createComment"
        /\ ValidInput(inv[p])
        /\ inv[p].session.user
        /\ ~HasUser(inv[p])
        /\ PostById(The(inv[p].postId)) # None
        /\ Denied(inv[p], "You have to login first to reply comment")

(***************************************************************************)
(* C5.  A createPost with valid input by an authenticated user for a slug  *)
(* that no topic has (the lookup of the topic completing) returns the      *)
(* single formError 'Topic not found' and stores no post.                  *)
(***************************************************************************)
PostInUnknownTopicIsRejected ==
    \A p \in Procs :
        LET i == inv[p] IN
        (/\ Finished(p)
         /\ i.op = "createPost"
         /\ ValidInput(i)
         /\ HasUser(i)
         /\ ~\E t \in i.pre.topics : t.slug = The(i.slug)
         /\ Worked(i, "topic.findFirst"))
            => /\ Denied(i, "Topic not found")
               /\ posts = i.pre.posts

WitnessPostInUnknownTopic ==
    \E p \in Procs :
        /\ Finished(p)
        /\ inv[p].op = "createPost"
        /\ topics # {}
        /\ Denied(inv[p], "Topic not found")

(***************************************************************************)
(* C6.  A createComment that succeeds returns the empty error map and has  *)
(* added exactly one comment, whose postId, authorId and content are the   *)
(* post id given, the caller's user id and the content given, and whose    *)
(* parentId is the parentId given, absent when none was.                   *)
(***************************************************************************)
CommentCreated(i) ==
    /\ i.op = "createComment"
    /\ i.outcome = "returned"
    /\ i.errors = NoErrors

\* C6: a createComment that returned no errors added exactly the one comment
\* built from its arguments.
SuccessfulCommentIsStored ==
    \A p \in Procs :
        LET i == inv[p] IN
        (Finished(p) /\ CommentCreated(i))
            => \E c \in comments \ i.pre.comments :
                   /\ comments = i.pre.comments \cup {c}
                   /\ c.postId = The(i.postId)
                   /\ c.userId = Caller(i)
                   /\ c.content = The(i.form.content)
                   /\ c.parentId = i.parentId

WitnessReplyStored ==
    \E p \in Procs :
        /\ Finished(p)
        /\ CommentCreated(inv[p])
        /\ inv[p].parentId # None
        /\ \E c \in comments : c.parentId = inv[p].parentId
(***************************************************************************)
(* C7.  As stated: a createComment returns the empty error map exactly     *)
(* when it inserted a comment, and whenever it returns a non-empty error   *)
(* map the comments are as they were.  The lookup of the topic that        *)
(* follows the insert can fail, and then the comment is stored and the     *)
(* caller is told of a failure.                                            *)
(***************************************************************************)
EmptyErrorsIffCommentInserted ==
    \A p \in Procs :
        LET i == inv[p] IN
        (Finished(p) /\ i.op = "createComment")
            => /\ CommentCreated(i) <=> Worked(i, "comment.create")
               /\ (i.outcome = "returned" /\ i.errors # NoErrors)
                      => comments = i.pre.comments

(***************************************************************************)
(* C8.  When the store write of createTopics, createPost, editPost or      *)
(* createComment fails, the invocation returns an error map whose          *)
(* formError is the message of the failure, or the operation's fallback    *)
(* message when the failure is no Error and so has none; the topics, posts *)
(* and comments are as they were and neither revalidatePath nor redirect   *)
(* is called.                                                              *)
(***************************************************************************)
Fallback(op) ==
    CASE op = "createTopics" -> "Something went wrong."
      [] op = "createPost" -> "Failed to create a post."
      [] op = "editPost" -> "Failed to update post."
      [] OTHER -> "Failed to reply comment"

WriteFailed(i) ==
    \E k \in DOMAIN i.calls : i.calls[k].fn \in WriteCalls /\ ~i.calls[k].ok

\* C8: a failed write is returned as formError with the failure's message or
\* the fallback, and nothing is stored or signalled.
WriteFailureIsReported ==
    \A p \in Procs :
        LET i == inv[p] IN
        (Finished(p) /\ i.op \in FormOps /\ WriteFailed(i))
            => /\ i.outcome = "returned"
               /\ i.caught # None
               /\ i.errors = FormError(IF The(i.caught).isError
                                       THEN The(i.caught).message
                                       ELSE Fallback(i.op))
               /\ SameStore(i)
               /\ ~Called(i, SignalCalls)

WitnessWriteFailure ==
    \E p \in Procs :
        /\ Finished(p)
        /\ inv[p].op = "editPost"
        /\ WriteFailed(inv[p])
        /\ Target(inv[p]) # None
        /\ Denied(inv[p], "db error")

(***************************************************************************)
(* C9.  As stated: every failure of a store call made by createTopics,     *)
(* createPost, editPost or createComment reaches the caller as a formError *)
(* entry and none is raised.  The lookups are made outside any try block,  *)
(* so a lookup that fails is raised.                                       *)
(***************************************************************************)
StoreCalls ==
    WriteCalls \cup {"topic.findFirst", "post.findUnique"}

StoreCallFailed(i) ==
    \E k \in DOMAIN i.calls : i.calls[k].fn \in StoreCalls /\ ~i.calls[k].ok

\* C9, as stated: no action with a form ends in a raised error, and a failed
\* store call ends in a returned formError.
StoreFailuresAreReturned ==
    \A p \in Procs :
        LET i == inv[p] IN
        (Finished(p) /\ i.op \in FormOps)
            => /\ i.outcome # "thrown"
               /\ StoreCallFailed(i)
                      => (i.outcome = "returned" /\ "formError" \in DOMAIN i.errors)

(***************************************************************************)
(* C10.  As stated: every invocation ends in the outcome of the first      *)
(* stage that fails, in the order validate, authenticate, authorize (not   *)
(* found before denied), mutate, and in Succeeded when none does; it       *)
(* attempts at most one store write.  A createComment whose insert has     *)
(* committed can still end in a failure, that of the lookup that follows.  *)
(***************************************************************************)
LookupFailed(i) ==
    /\ i.op \in {"createPost", "editPost", "deletePost"}
    /\ \E k \in DOMAIN i.calls :
           i.calls[k].fn \in {"topic.findFirst", "post.findUnique"} /\ ~i.calls[k].ok

\* The outcome the stages give, from the input, the store as it was and the
\* answers of the store.
StageOutcome(i) ==
    IF i.op \in FormOps /\ ~ValidInput(i) THEN "Invalid"
    ELSE IF ~HasUser(i) THEN "Unauthenticated"
    ELSE IF LookupFailed(i) THEN "StorageFailure"
    ELSE IF i.op \in {"editPost", "deletePost"} /\ Target(i) = None THEN "NotFound"
    ELSE IF i.op = "createPost" /\ ~\E t \in i.pre.topics : t.slug = The(i.slug)
      THEN "NotFound"
    ELSE IF i.op \in {"editPost", "deletePost"} /\ ByOtherUser(i) THEN "Unauthorized"
    ELSE IF WriteFailed(i) THEN "StorageFailure"
    ELSE "Succeeded"

Message(i) ==
    IF i.outcome = "returned" THEN i.errors.formError[1] ELSE The(i.thrown).message

\* The outcome the caller sees.
SeenOutcome(i) ==
    IF i.outcome = "redirected" THEN "Succeeded"
    ELSE IF i.outcome = "returned" /\ i.errors = NoErrors THEN "Succeeded"
    ELSE IF i.outcome = "returned" /\ "formError" \notin DOMAIN i.errors THEN "Invalid"
    ELSE IF Message(i) \in {LoginMessage(op) : op \in FormOps}
                             \cup {"You must be logged in to delete posts"}
      THEN "Unauthenticated"
    ELSE IF Message(i) \in {"Post not found", "Topic not found"} THEN "NotFound"
    ELSE IF Message(i) \in {"You can only edit your own posts",
                            "You can only delete your own posts"}
      THEN "Unauthorized"
    ELSE "StorageFailure"

WriteAttempts(i) == Cardinality({k \in DOMAIN i.calls : i.calls[k].fn \in WriteCalls})

\* C10, as stated: the outcome seen is the outcome of the stages, after at
\* most one write.
OutcomeIsFirstFailingStage ==
    \A p \in Procs :
        LET i == inv[p] IN
        Finished(p)
            => /\ SeenOutcome(i) = StageOutcome(i)
               /\ WriteAttempts(i) <= 1

(***************************************************************************)
(* C11.  As stated: an invocation calls revalidatePath exactly once when   *)
(* its insert, update or delete committed, and not at all otherwise.  A    *)
(* createComment whose insert committed calls it only after a further      *)
(* lookup of the topic, and not when that lookup fails.                    *)
(***************************************************************************)
WriteCommitted(i) ==
    \E k \in DOMAIN i.calls : i.calls[k].fn \in WriteCalls /\ i.calls[k].ok

Invalidations(i) ==
    Cardinality({k \in DOMAIN i.calls : i.calls[k].fn = "revalidatePath"})

\* C11, as stated: one invalidation when the write committed, none otherwise.
InvalidatesIffWriteCommitted ==
    \A p \in Procs :
        LET i == inv[p] IN
        Finished(p) => Invalidations(i) = (IF WriteCommitted(i) THEN 1 ELSE 0)

(***************************************************************************)
(* C12.  redirect is called by exactly the invocations of createTopics,    *)
(* createPost, editPost and deletePost whose write committed, once, and    *)
(* right after that invocation's revalidatePath; a createComment and an    *)
(* invocation that ends in errors or in a raised error never call it.      *)
(***************************************************************************)
NavigatingOps == {"createTopics", "createPost", "editPost", "deletePost"}

Navigations(i) == {k \in DOMAIN i.calls : i.calls[k].fn = "redirect"}

Failed(i) ==
    \/ i.outcome = "thrown"
    \/ i.outcome = "returned" /\ i.errors # NoErrors

\* C12: a navigation exactly on the success of the four navigating actions,
\* after the invalidation.
NavigatesExactlyOnSuccess ==
    \A p \in Procs :
        LET i == inv[p] IN
        /\ Navigations(i) # {} <=> (i.op \in NavigatingOps /\ WriteCommitted(i))
        /\ Cardinality(Navigations(i)) <= 1
        /\ \A k \in Navigations(i) :
               \E j \in 1..(k - 1) : i.calls[j].fn = "revalidatePath"
        /\ (i.op = "createComment" \/ Failed(i)) => Navigations(i) = {}

WitnessNavigation ==
    \E p \in Procs :
        /\ Finished(p)
        /\ inv[p].op = "deletePost"
        /\ Navigations(inv[p]) # {}
        /\ Invalidations(inv[p]) = 1

(***************************************************************************)
(* C13.  As stated: the path a successful editPost or deletePost hands to  *)
(* revalidatePath and to redirect is made of the slug of the topic the     *)
(* post belongs to (and of the post's id for editPost), whatever slug the  *)
(* caller passes.  Both actions make the path of the slug they are passed. *)
(***************************************************************************)
\* The slug of the topic of the post the invocation names.
SlugOfTarget(i) ==
    The({t.slug : t \in {u \in i.pre.topics : u.id = The(Target(i)).topicId}})

\* C13, as stated: the paths are those of the post's own topic.
PathsAreOfThePostsTopic ==
    \A p \in Procs :
        LET i == inv[p] IN
        (Finished(p) /\ i.op \in {"editPost", "deletePost"} /\ i.outcome = "redirected")
            => \A k \in DOMAIN i.calls :
                   i.calls[k].fn \in SignalCalls
                       => i.calls[k].arg =
                            (IF i.op = "editPost"
                             THEN PostPath(SlugOfTarget(i), The(i.postId))
                             ELSE TopicPath(SlugOfTarget(i)))

(***************************************************************************)
(* C14.  The step in which a deletePost commits leaves no comment of the   *)
(* deleted post in the store; comments leave the store in no other step,   *)
(* and that step removes only comments of the deleted post, the comments   *)
(* of the other posts staying as they are.                                 *)
(***************************************************************************)
\* The step is the committing write of a deletePost by worker p.
DeleteCommits(p) ==
    /\ inv[p].op = "deletePost"
    /\ inv[p].pc = "write"
    /\ inv'[p].outcome = "redirected"

Items(s) == {s[k] : k \in DOMAIN s}

Position(s, x) == CHOOSE k \in DOMAIN s : s[k] = x

\* s is made of comments of c, each once, in the order they have in c.
KeepsOrderOf(s, c) ==
    /\ Items(s) \subseteq Items(c)
    /\ \A j, k \in DOMAIN s : j < k => Position(c, s[j]) < Position(c, s[k])

\* A rendering by CommentList, and one that has come to its end.
Listing == render.count # None

Rendered == render.pc = "done"

ParentIn(c, cs) == {d \in Items(cs) : c.parentId = Some(d.id)}

\* Every reply in cs is a reply to a comment in cs.
WellFormed(cs) == \A c \in Items(cs) : c.parentId # None => ParentIn(c, cs) # {}

RECURSIVE Ancestors(_, _)
Ancestors(c, cs) ==
    IF ParentIn(c, cs) = {} THEN 0
    ELSE 1 + Ancestors(CHOOSE d \in ParentIn(c, cs) : TRUE, cs)

HasId(cs, id) == \E c \in Items(cs) : c.id = id

(***************************************************************************)
(* C15.  The top-level list CommentList computes from the sequence it      *)
(* fetched holds exactly the comments of that sequence without a parentId, *)
(* each once, in the order they have in the sequence.                      *)
(***************************************************************************)
TopLevelAreTheParentless ==
    Listing
        => /\ Items(render.top) = {c \in Items(render.listed) : c.parentId = None}
           /\ KeepsOrderOf(render.top, render.listed)
           /\ render.mounted =
                [k \in DOMAIN render.top |->
                    [postId |-> render.top[k].postId,
                     commentId |-> render.top[k].id, depth |-> 0]]

WitnessTopLevel ==
    /\ Listing
    /\ Len(render.top) = 2
    /\ Len(render.listed) = 3
    /\ render.listed[2].parentId # None

(***************************************************************************)
(* C16.  The children a CommentShow computes for its comment id from the   *)
(* sequence it fetched are exactly the comments of that sequence whose     *)
(* parentId is the id, in the order they have in the sequence; for an id   *)
(* that no comment of the sequence has, it computes none and returns       *)
(* nothing, without an error.                                              *)
(***************************************************************************)
ChildrenAreTheReplies ==
    \A k \in DOMAIN render.shows :
        LET s == render.shows[k]
            id == s.props.commentId
        IN IF HasId(s.fetched, id)
           THEN /\ s.found
                /\ Items(s.children) = {c \in Items(s.fetched) : c.parentId = Some(id)}
                /\ KeepsOrderOf(s.children, s.fetched)
           ELSE /\ ~s.found
                /\ s.children = <<>>

WitnessChildren ==
    /\ Rendered
    /\ \E k \in DOMAIN render.shows : Len(render.shows[k].children) = 2
    /\ \E k \in DOMAIN render.shows : ~render.shows[k].found

(***************************************************************************)
(* C17.  When every reply among the comments of a post is a reply to a     *)
(* comment of that post, the rendering that CommentList starts displays    *)
(* every comment of the post, and each exactly once.                       *)
(***************************************************************************)
Displayed(c) == {k \in DOMAIN render.out : render.out[k].comment = c}

EveryCommentDisplayedOnce ==
    (Listing /\ Rendered /\ WellFormed(render.listed))
        => /\ \A c \in Items(render.listed) : Cardinality(Displayed(c)) = 1
           /\ \A k \in DOMAIN render.out : render.out[k].comment \in Items(render.listed)
           /\ render.count = Some(Len(render.out))

WitnessEveryCommentDisplayed ==
    /\ Listing
    /\ Rendered
    /\ WellFormed(render.listed)
    /\ Len(render.out) = 3
    /\ \E c \in Items(render.listed) :
           Cardinality({d \in Items(render.listed) : d.parentId = Some(c.id)}) = 2

(***************************************************************************)
(* C18.  In the rendering that CommentList starts a comment is displayed   *)
(* after its parent (so before its own replies), inside as many open       *)
(* CommentShow, its own counted, as it has ancestors plus one; the depth   *)
(* prop, which counts from 0, is one less.  The chain 3 -> 2 -> 1 is       *)
(* displayed as 1, 2, 3 at the depths 1, 2, 3.                             *)
(***************************************************************************)
IsChain(cs) ==
    /\ Len(cs) = 3
    /\ \E a, b, c \in Items(cs) :
           /\ a.parentId = None
           /\ b.parentId = Some(a.id)
           /\ c.parentId = Some(b.id)

ParentsFirstAtTheirDepth ==
    Listing
        => /\ \A k \in DOMAIN render.out :
                  LET c == render.out[k].comment IN
                  /\ render.out[k].level = Ancestors(c, render.listed) + 1
                  /\ render.out[k].depth + 1 = render.out[k].level
                  /\ c.parentId # None
                         => \E j \in 1..(k - 1) :
                                c.parentId = Some(render.out[j].comment.id)
           /\ (Rendered /\ IsChain(render.listed))
                  => /\ Len(render.out) = 3
                     /\ \A k \in 1..3 :
                            /\ render.out[k].level = k
                            /\ k > 1 => render.out[k].comment.parentId
                                            = Some(render.out[k - 1].comment.id)

WitnessChain ==
    /\ Listing
    /\ Rendered
    /\ IsChain(render.listed)
    /\ render.out[3].level = 3
    /\ render.out[3].comment.id = 3

(***************************************************************************)
(* C19.  A CommentShow mounted with an id that no comment of the post has  *)
(* displays nothing, neither for that id nor for the comments that are     *)
(* replies to it (a reply is displayed only where it is mounted itself),   *)
(* and ends without an error; the CommentShow mounted next to it display   *)
(* their comments and the replies to them as they would without it.        *)
(***************************************************************************)
\* The comments of a post as the query gives them.
Fetched(postId) == NewestFirst({c \in comments : c.postId = postId})

RepliesTo(cs, id) == SelectSeq(cs, LAMBDA c : c.parentId = Some(id))

\* What displaying a comment, or a sequence of comments, at a level amounts
\* to: the comment, then its replies one level further in.
RECURSIVE TreeOf(_, _, _), ForestOf(_, _, _)
TreeOf(cs, c, level) ==
    <<[comment |-> c, depth |-> level - 1, level |-> level]>>
        \o ForestOf(cs, RepliesTo(cs, c.id), level + 1)

ForestOf(cs, shown, level) ==
    IF shown = <<>> THEN <<>>
    ELSE TreeOf(cs, Head(shown), level) \o ForestOf(cs, Tail(shown), level)

\* The comments of the mounted ids that the post has, in the order mounted.
Present(mounted) ==
    LET hit(m) == {c \in Items(Fetched(m.postId)) : c.id = m.commentId}
        found == SelectSeq(mounted, LAMBDA m : hit(m) # {})
    IN [k \in DOMAIN found |-> CHOOSE c \in hit(found[k]) : TRUE]

MissingIdDisplaysNothing ==
    (Rendered /\ ~Listing)
        => /\ render.out =
                ForestOf(Fetched(render.mounted[1].postId), Present(render.mounted), 1)
           /\ \A k \in DOMAIN render.shows :
                  ~HasId(render.shows[k].fetched, render.shows[k].props.commentId)
                      => /\ ~render.shows[k].found
                         /\ \A j \in DOMAIN render.out :
                                render.out[j].comment.parentId
                                        = Some(render.shows[k].props.commentId)
                                    => /\ render.out[j].level = 1
                                       /\ \E m \in Items(render.mounted) :
                                              m.commentId = render.out[j].comment.id

WitnessMissingId ==
    /\ Rendered
    /\ ~Listing
    /\ Len(render.mounted) = 2
    /\ ~HasId(Fetched(render.mounted[1].postId), render.mounted[1].commentId)
    /\ \E c \in Items(Fetched(render.mounted[1].postId)) :
           c.parentId = Some(render.mounted[1].commentId)
    /\ Len(render.out) = 1
    /\ render.out[1].comment.parentId = None

(***************************************************************************)
(* C20.  A rendering that has begun comes to its end (or to a fetch that   *)
(* rejects), and when every reply among the comments of the post is a      *)
(* reply to a comment of the post, the deepest nesting of CommentShow the  *)
(* rendering by CommentList reaches is the depth of the deepest thread.    *)
(***************************************************************************)
Max(S) == IF S = {} THEN 0 ELSE CHOOSE x \in S : \A y \in S : y <= x

RecursionDepth == Max({render.out[k].level : k \in DOMAIN render.out})

DeepestThread(cs) == Max({Ancestors(c, cs) + 1 : c \in Items(cs)})

RenderingTerminates ==
    <>(\/ render.pc = "failed"
       \/ /\ Rendered
          /\ (Listing /\ WellFormed(render.listed))
                 => RecursionDepth = DeepestThread(render.listed))

WitnessDeepestThread ==
    /\ Rendered
    /\ Listing
    /\ WellFormed(render.listed)
    /\ Len(render.listed) = 3
    /\ RecursionDepth = 2

(***************************************************************************)
(* The specification of a rendering while the store changes: over a store  *)
(* of two posts and their comments a tree is rendered once, and between    *)
(* the steps of the rendering a worker runs one createComment or one       *)
(* deletePost.                                                             *)
(***************************************************************************)
\* A request whose form passes the schema, made by a user who is logged in.
PassesChecks(i) ==
    /\ i.pc # "done"
    /\ Authenticated(i.session)

InitRenderLive ==
    /\ topics = SeedTopics
    /\ posts = SeedPosts
    /\ \E n \in 1..(MaxShown - 1) :
           /\ comments \in SeedComments(n)
           /\ nextCommentId = n + 1
           /\ seeded = 3 + n
    /\ nextPostId = 3
    /\ live = {1}
    /\ inv = [p \in Procs |-> Idle]
    /\ render = NotRendering

NextRenderLive ==
    \/ \E postId \in PostIdArgs : CommentList(postId)
    \/ CommentShow
    \/ CommentShowReturn
    \/ \E p \in Procs :
        \/ CreateCommentBegin(p) /\ PassesChecks(inv'[p])
        \/ CreateCommentAuth(p)
        \/ CreateCommentWrite(p)
        \/ CreateCommentRevalidate(p)
        \/ DeletePostBegin(p) /\ PassesChecks(inv'[p])
        \/ DeletePostAuth(p)
        \/ DeletePostLookup(p)
        \/ DeletePostWrite(p)

SpecRenderLive == InitRenderLive /\ [][NextRenderLive]_vars

(***************************************************************************)
(* C21.  As stated: one rendering computes the count, the top-level        *)
(* comments and the children at every level from one and the same fetched  *)
(* sequence, so a createComment or deletePost that commits during the      *)
(* rendering does not make two levels see different comments.  Every       *)
(* CommentShow fetches the comments of the post again.                     *)
(***************************************************************************)
\* C21, as stated: every CommentShow of a rendering by CommentList works on
\* the sequence CommentList fetched.
LevelsSeeOneSnapshot ==
    Listing
        => \A k \in DOMAIN render.shows : render.shows[k].fetched = render.listed

(***************************************************************************)
(* The specification of the threads: over a store of one topic and two     *)
(* posts, a worker runs createComment and deletePost one after the other,  *)
(* for the user who wrote the posts.                                       *)
(***************************************************************************)
\* A request that passes the checks, made by the author of the two posts.
ByTheAuthor(i) ==
    /\ PassesChecks(i)
    /\ i.session.id = Some("u1")

InitThreads ==
    /\ topics = SeedTopics
    /\ posts = SeedPosts
    /\ comments = {}
    /\ nextPostId = 3
    /\ nextCommentId = 1
    /\ seeded = 3
    /\ live = {1}
    /\ inv = [p \in Procs |-> Idle]
    /\ render = NotRendering

NextThreads ==
    \E p \in Procs :
        \/ Respond(p)
        \/ CreateCommentBegin(p) /\ ByTheAuthor(inv'[p])
        \/ CreateCommentAuth(p)
        \/ CreateCommentWrite(p)
        \/ CreateCommentRevalidate(p)
        \/ DeletePostBegin(p) /\ ByTheAuthor(inv'[p])
        \/ DeletePostAuth(p)
        \/ DeletePostLookup(p)
        \/ DeletePostWrite(p)

SpecThreads == InitThreads /\ [][NextThreads]_vars

(***************************************************************************)
(* C22.  As stated: after any sequence of createComment, with whatever     *)
(* postId and parentId, every stored comment that has a parentId is a      *)
(* reply to a stored comment of the same post.  createComment stores the   *)
(* postId and the parentId it is given and compares them with nothing.     *)
(***************************************************************************)
\* C22, as stated: the parent of a stored reply is stored and is of its post.
ParentIsOfTheSamePost ==
    \A c \in comments :
        c.parentId # None
            => \E d \in comments : d.id = The(c.parentId) /\ d.postId = c.postId

(***************************************************************************)
(* C23.  In every state the comments form a forest under the parent        *)
(* relation, over all comments and so over those of each post: following   *)
(* parentId from a comment never comes back to it.                         *)
(***************************************************************************)
ParentsOf(S) == {d \in comments : \E c \in S : c.parentId = Some(d.id)}

\* The comments reached from those of S in at most n steps to the parent.
RECURSIVE Climb(_, _)
Climb(S, n) == IF n = 0 THEN S ELSE Climb(S \cup ParentsOf(S), n - 1)

AncestorsOf(c) == Climb(ParentsOf({c}), Cardinality(comments))

NoCommentIsItsOwnAncestor == \A c \in comments : c \notin AncestorsOf(c)

WitnessThread ==
    /\ \E c \in comments : Cardinality(AncestorsOf(c)) = 2
    /\ \E p \in Procs :
           /\ Finished(p)
           /\ CommentCreated(inv[p])
           /\ inv[p].parentId # None

(***************************************************************************)
(* C24.  In every state every stored post has a title of at least 3        *)
(* characters and a content of at least 10, every stored comment a content *)
(* of at least 3, and every stored topic a slug of at least 3 characters,  *)
(* all of them lowercase letters or hyphens, and a description of at least *)
(* 10 characters.                                                          *)
(***************************************************************************)
StoredFieldsAreValid ==
    /\ \A q \in posts : Len(q.title) >= 3 /\ Len(q.content) >= 10
    /\ \A c \in comments : Len(c.content) >= 3
    /\ \A t \in topics :
           /\ Len(t.slug) >= 3
           /\ \A k \in 1..Len(t.slug) : t.slug[k] \in LowerOrHyphen
           /\ Len(t.description) >= 10

WitnessStoredFields ==
    /\ topics # {}
    /\ comments # {}
    /\ \E p \in Procs :
           /\ Finished(p)
           /\ inv[p].op = "editPost"
           /\ inv[p].outcome = "redirected"
           /\ \E q \in posts : q.id = The(inv[p].postId) /\ q.title = "abcd"

(***************************************************************************)
(* C27.  An invocation whose input fails validation returns an error map   *)
(* with an entry, not empty, for every field that fails and for no other,  *)
(* and calls neither the session provider nor the store: a createTopics    *)
(* whose name and description both fail is answered with an entry under    *)
(* name and one under description.                                         *)
(***************************************************************************)
FieldOk(i, f) ==
    CASE f = "name" ->
           /\ LongEnough(i.form.name, 3)
           /\ \A k \in 1..Len(The(i.form.name)) : The(i.form.name)[k] \in LowerOrHyphen
      [] f = "description" -> LongEnough(i.form.description, 10)
      [] f = "title" -> LongEnough(i.form.title, 3)
      [] OTHER -> LongEnough(i.form.content, IF i.op = "createComment" THEN 3 ELSE 10)

FailingFields(i) == {f \in FieldsOf(i.op) : ~FieldOk(i, f)}

EveryFailingFieldIsReported ==
    \A p \in Procs :
        LET i == inv[p] IN
        (Finished(p) /\ i.op \in FormOps /\ FailingFields(i) # {})
            => /\ i.outcome = "returned"
               /\ DOMAIN i.errors = FailingFields(i)
               /\ \A f \in DOMAIN i.errors : i.errors[f] # <<>>
               /\ ~Called(i, StoreCalls \cup SignalCalls \cup {"getServerSession"})
               /\ SameStore(i)

WitnessBothFieldsFail ==
    \E p \in Procs :
        /\ Finished(p)
        /\ inv[p].op = "createTopics"
        /\ inv[p].form.name = Some(<<"A", "B">>)
        /\ inv[p].form.description = Some("short")
        /\ DOMAIN inv[p].errors = {"name", "description"}
        /\ HasUser(inv[p])

(***************************************************************************)
(* C28.  A post or a comment enters the store in the write of a createPost *)
(* or createComment, with the id of the user who called it as its author;  *)
(* in every step a stored post keeps its author and its topic, an edit     *)
(* changing its title and content only, and a stored comment is not        *)
(* changed at all.                                                         *)
(***************************************************************************)
InsertedBy(p, op, record) ==
    /\ inv[p].op = op
    /\ inv[p].pc = "write"
    /\ HasUser(inv[p])
    /\ record.userId = Caller(inv[p])

AuthorAndTopicAreKept ==
    [][/\ \A q \in posts' :
              IF \E r \in posts : r.id = q.id
              THEN \E r \in posts :
                       /\ r.id = q.id
                       /\ q = [r EXCEPT !.title = q.title, !.content = q.content]
              ELSE \E p \in Procs : InsertedBy(p, "createPost", q)
       /\ \A c \in comments' \ comments :
              /\ \E p \in Procs : InsertedBy(p, "createComment", c)
              /\ ~\E d \in comments : d.id = c.id
      ]_vars

WitnessEditKeepsAuthor ==
    \E p \in Procs :
        /\ Finished(p)
        /\ inv[p].op = "editPost"
        /\ inv[p].outcome = "redirected"
        /\ Caller(inv[p]) = "u2"
        /\ \E q \in posts :
               /\ q.id = The(inv[p].postId)
               /\ q.userId = "u2"
               /\ q.title # The(Target(inv[p])).title
        /\ \E c \in comments : c.userId = "u1"

(***************************************************************************)
(* The specification of concurrent createTopics: two workers, each running *)
(* createTopics, their steps interleaved, over a store that begins empty.  *)
(***************************************************************************)
InitTopicRace ==
    /\ topics = {}
    /\ posts = {}
    /\ comments = {}
    /\ nextPostId = 1
    /\ nextCommentId = 1
    /\ seeded = 0
    /\ live = Procs
    /\ inv = [p \in Procs |-> Idle]
    /\ render = NotRendering

NextTopicRace ==
    \E p \in Procs :
        \/ Respond(p)
        \/ CreateTopicsBegin(p)
        \/ CreateTopicsAuth(p)
        \/ CreateTopicsWrite(p)

SpecTopicRace == InitTopicRace /\ [][NextTopicRace]_vars

(***************************************************************************)
(* C25.  As stated: no two stored topics have the same slug, and every     *)
(* createTopics whose name is the slug of a stored topic, one committed by *)
(* a concurrent invocation included, returns a formError, creates no topic *)
(* and does not navigate.  With a description that fails validation it     *)
(* returns the field errors, and no formError.                             *)
(***************************************************************************)
UniqueSlugs == \A t, u \in topics : t.slug = u.slug => t = u

\* The step ends worker p's createTopics.
Ends(p, op) ==
    /\ inv[p].pc # "done"
    /\ inv'[p].pc = "done"
    /\ inv'[p].op = op

NameIsTaken(i) == \E t \in topics : Some(t.slug) = i.form.name

Refused(i) ==
    /\ i.outcome = "returned"
    /\ DOMAIN i.errors = {"formError"}
    /\ i.errors.formError # <<>>
    /\ ~Called(i, {"redirect"})

\* C25, as stated.
TakenNameIsRefused ==
    [][/\ UniqueSlugs'
       /\ \A p \in Procs :
              (Ends(p, "createTopics") /\ NameIsTaken(inv'[p]))
                  => /\ Refused(inv'[p])
                     /\ topics' = topics
      ]_vars

\* C25, amended: no two stored topics have the same slug, and every
\* createTopics with valid input whose name is the slug of a stored topic, one
\* committed by a concurrent invocation included, returns a formError, creates
\* no topic and does not navigate.
ValidTakenNameIsRefused ==
    [][/\ UniqueSlugs'
       /\ \A p \in Procs :
              (/\ Ends(p, "createTopics")
               /\ ValidInput(inv'[p])
               /\ NameIsTaken(inv'[p]))
                  => /\ Refused(inv'[p])
                     /\ topics' = topics
      ]_vars

WitnessTopicRace ==
    \E p, q \in Procs :
        /\ Finished(p)
        /\ Finished(q)
        /\ inv[p].outcome = "redirected"
        /\ Denied(inv[q], "Unique constraint failed")
        /\ inv[q].pre.topics = {}
        /\ inv[p].pre.topics = {}

(***************************************************************************)
(* The specification of concurrent editPost and deletePost: two workers,   *)
(* their steps interleaved, each running editPost and deletePost for the   *)
(* user who wrote the one post of the store.                               *)
(***************************************************************************)
InitPostRace ==
    /\ topics = SeedTopics
    /\ posts = {q \in SeedPosts : q.id = 1}
    /\ comments = {}
    /\ nextPostId = 2
    /\ nextCommentId = 1
    /\ seeded = 2
    /\ live = Procs
    /\ inv = [p \in Procs |-> Idle]
    /\ render = NotRendering

NextPostRace ==
    \E p \in Procs :
        \/ Respond(p)
        \/ EditPostBegin(p) /\ ByTheAuthor(inv'[p])
        \/ EditPostAuth(p)
        \/ EditPostLookup(p)
        \/ EditPostWrite(p)
        \/ DeletePostBegin(p) /\ ByTheAuthor(inv'[p])
        \/ DeletePostAuth(p)
        \/ DeletePostLookup(p)
        \/ DeletePostWrite(p)

SpecPostRace == InitPostRace /\ [][NextPostRace]_vars

(***************************************************************************)
(* C26.  The step in which an editPost commits leaves the post with the    *)
(* title and the content of that invocation, and a stored post changes in  *)
(* no other step; so when two editPost of the author on one post, run at   *)
(* once and with every store call answered, have ended and the post is     *)
(* still stored, both have reported success and the post has the title and *)
(* the content of one of them, the one that committed last.                *)
(***************************************************************************)
EditCommits(p) ==
    /\ inv[p].op = "editPost"
    /\ inv[p].pc = "write"
    /\ inv'[p].outcome = "redirected"

HasTheInputOf(q, i) ==
    /\ q.id = The(i.postId)
    /\ q.title = The(i.form.title)
    /\ q.content = The(i.form.content)

\* Two invocations that have ended, by different workers, on the same post.
Raced(p, q) ==
    /\ p # q
    /\ Finished(p)
    /\ Finished(q)
    /\ inv[p].postId = inv[q].postId

BothEditsSucceed ==
    \A p, q \in Procs :
        (/\ Raced(p, q)
         /\ inv[p].op = "editPost"
         /\ inv[q].op = "editPost"
         /\ PostById(The(inv[p].postId)) # None
         /\ ~StoreCallFailed(inv[p])
         /\ ~StoreCallFailed(inv[q]))
            => /\ inv[p].outcome = "redirected"
               /\ inv[q].outcome = "redirected"
               /\ \E w \in {p, q} :
                      HasTheInputOf(The(PostById(The(inv[p].postId))), inv[w])

LastEditWins ==
    [][/\ \A p \in Procs :
              EditCommits(p) => \E q \in posts' : HasTheInputOf(q, inv[p])
       /\ \A r \in posts, q \in posts' :
              (r.id = q.id /\ r # q)
                  => \E p \in Procs : EditCommits(p) /\ The(inv[p].postId) = r.id
       /\ BothEditsSucceed'
      ]_vars

WitnessEditRace ==
    \E p, q \in Procs :
        /\ Raced(p, q)
        /\ inv[p].outcome = "redirected"
        /\ inv[q].outcome = "redirected"
        /\ inv[p].op = "editPost"
        /\ inv[q].op = "editPost"
        /\ inv[p].pre.posts = inv[q].pre.posts
        /\ inv[p].form.title = Some("abcd")
        /\ inv[q].form.title = Some("abc")
        /\ \E r \in posts : r.title = "abc"

(***************************************************************************)
(* C30.  A deletePost or editPost that reaches its write when the post is  *)
(* no longer stored ends in a failure, a raised error for deletePost and a *)
(* formError for editPost, calls neither revalidatePath nor redirect and   *)
(* leaves the store as it is; no step brings back a post that was deleted. *)
(* So when a deletePost and a deletePost or editPost of the author, both   *)
(* past the ownership check of the same post and with the store answering  *)
(* their writes, have ended, the post is deleted, and of two deletePost    *)
(* exactly one has succeeded and the other has raised an error.            *)
(***************************************************************************)
PostWrites == {"editPost", "deletePost"}

\* The write of worker p comes after the post has left the store.
WritesTooLate(p) ==
    /\ inv[p].op \in PostWrites
    /\ inv[p].pc = "write"
    /\ inv'[p].pc = "done"
    /\ PostById(The(inv[p].postId)) = None

FailsWithoutSignal(i) ==
    /\ ~Called(i, SignalCalls)
    /\ IF i.op = "deletePost" THEN i.outcome = "thrown"
       ELSE /\ i.outcome = "returned"
            /\ DOMAIN i.errors = {"formError"}
            /\ i.errors.formError # <<>>

\* The store answered the write with a failure of its own.
WriteBroke(i) ==
    /\ i.caught # None
    /\ The(i.caught).message \notin {"Record to update not found.",
                                     "Record to delete does not exist."}

PassedOwnership(i) == i.found # None

DeleteRaceEndsDeleted ==
    \A p, q \in Procs :
        (/\ Raced(p, q)
         /\ inv[p].op = "deletePost"
         /\ inv[q].op \in PostWrites
         /\ PassedOwnership(inv[p])
         /\ PassedOwnership(inv[q])
         /\ ~WriteBroke(inv[p])
         /\ ~WriteBroke(inv[q]))
            => /\ PostById(The(inv[p].postId)) = None
               /\ IF inv[q].op = "deletePost"
                  THEN \E w, l \in {p, q} :
                           /\ w # l
                           /\ inv[w].outcome = "redirected"
                           /\ FailsWithoutSignal(inv[l])
                  ELSE /\ inv[p].outcome = "redirected"
                       /\ inv[q].outcome = "redirected" \/ FailsWithoutSignal(inv[q])

LateWriteFails ==
    [][/\ \A p \in Procs :
              WritesTooLate(p)
                  => /\ FailsWithoutSignal(inv'[p])
                     /\ posts' = posts
                     /\ comments' = comments
       /\ \A q \in posts' : (\E r \in posts : r.id = q.id) \/ q.id = nextPostId
       /\ DeleteRaceEndsDeleted'
      ]_vars

WitnessDeleteRace ==
    \E p, q \in Procs :
        /\ Raced(p, q)
        /\ inv[p].op = "deletePost"
        /\ inv[q].op = "deletePost"
        /\ PassedOwnership(inv[p])
        /\ PassedOwnership(inv[q])
        /\ inv[p].outcome = "redirected"
        /\ inv[q].outcome = "thrown"
        /\ The(inv[q].thrown).message
               = "Failed to delete post: Record to delete does not exist."
        /\ posts = {}

(***************************************************************************)
(* The specification of createComment against deletePost: two workers,     *)
(* their steps interleaved, each running createComment (of comments that   *)
(* are no replies) and deletePost for the user who wrote the one post of   *)
(* the store.                                                              *)
(***************************************************************************)
\* A comment on a post, not a reply, whatever its form, that the author of
\* the post sends.
CommentOfTheAuthor(i) ==
    /\ i.session.id = Some("u1")
    /\ i.parentId = None

InitCommentRace ==
    /\ topics = SeedTopics
    /\ posts = {q \in SeedPosts : q.id = 1}
    /\ comments = {}
    /\ nextPostId = 2
    /\ nextCommentId = 1
    /\ seeded = 2
    /\ live = Procs
    /\ inv = [p \in Procs |-> Idle]
    /\ render = NotRendering

NextCommentRace ==
    \E p \in Procs :
        \/ Respond(p)
        \/ CreateCommentBegin(p) /\ CommentOfTheAuthor(inv'[p])
        \/ CreateCommentAuth(p)
        \/ CreateCommentWrite(p)
        \/ CreateCommentRevalidate(p)
        \/ DeletePostBegin(p) /\ ByTheAuthor(inv'[p])
        \/ DeletePostAuth(p)
        \/ DeletePostLookup(p)
        \/ DeletePostWrite(p)

SpecCommentRace == InitCommentRace /\ [][NextCommentRace]_vars

(***************************************************************************)
(* C29.  As stated: in every state, whatever the interleaving of           *)
(* createComment and deletePost, the post of every stored comment is       *)
(* stored, and every createComment that ends, not after its insert, when   *)
(* its post is not stored (never was, or was deleted before the insert)    *)
(* returns a formError and stores no comment.  With a content that fails   *)
(* validation it returns the field errors, and no formError.               *)
(***************************************************************************)
PostOfEveryCommentIsStored == \A c \in comments : PostById(c.postId) # None

\* The step ends worker p's createComment at its insert or before it, and
\* the post it names is not stored.
EndsWithoutPost(p) ==
    /\ Ends(p, "createComment")
    /\ inv[p].pc # "relookup"
    /\ PostById(The(inv'[p].postId)) = None

\* C29, as stated.
CommentWithoutPostIsRefused ==
    [][/\ PostOfEveryCommentIsStored'
       /\ \A p \in Procs :
              EndsWithoutPost(p)
                  => /\ Refused(inv'[p])
                     /\ comments' = comments
      ]_vars

\* C29, amended: in every state, whatever the interleaving of createComment
\* and deletePost, the post of every stored comment is stored, and every
\* createComment with valid input that ends, not after its insert, when its
\* post is not stored returns a formError and stores no comment.
ValidCommentWithoutPostIsRefused ==
    [][/\ PostOfEveryCommentIsStored'
       /\ \A p \in Procs :
              (EndsWithoutPost(p) /\ ValidInput(inv'[p]))
                  => /\ Refused(inv'[p])
                     /\ comments' = comments
      ]_vars

WitnessCommentRace ==
    \E p, q \in Procs :
        /\ Raced(p, q)
        /\ inv[p].op = "deletePost"
        /\ inv[p].outcome = "redirected"
        /\ inv[q].op = "createComment"
        /\ \E r \in inv[q].pre.posts : r.id = The(inv[q].postId)
        /\ Denied(inv[q], "Foreign key constraint failed")
        /\ \E c \in inv[p].pre.comments : c.postId = The(inv[p].postId)
        /\ comments = {}

====
